---- MODULE Spec2Model ----
(***************************************************************************)
(* The MusicGenerator component of audio-emotion-scapes: the generation    *)
(* pipeline (handleGenerateMusic), the song catalog (generatedSongs), the  *)
(* object URLs handed out by URL.createObjectURL, and the playlist.        *)
(*                                                                         *)
(* Two versions of the component are in the repository and both are        *)
(* modelled; `variant` says which one an instance runs:                    *)
(*   "A"  src/src/components/MusicGenerator.tsx                            *)
(*   "B"  src/unnamed/part_000 (second copy, lines 779-1583; the first     *)
(*        copy differs from it in comments only)                           *)
(*                                                                         *)
(* handleGenerateMusic is an async function.  Each action below is one     *)
(* synchronous segment of it: the code between two awaits that wait for a  *)
(* timer or for the audio decode / render.  Awaits of already settled      *)
(* promises (await saveSongOption(song)) resume in a microtask, before any *)
(* timer or user event, so they do not end a segment.                      *)
(*                                                                         *)
(* Failures are modelled where the code raises one of its own exception    *)
(* classes: getMoodSelection, the try block of processOutput (any step of  *)
(* generateMusicFromAudio and the song construction) and the try block of  *)
(* saveSongOption.                                                         *)
(***************************************************************************)
EXTENDS Integers, Sequences, FiniteSets, TLC

VARIABLES
    variant,            \* which version of the component this instance is
    audioBlob,          \* prop audioBlob: 0 is null, otherwise a recording
    selectedMood,       \* prop selectedMood: NoMood is null
    isGenerating,       \* useState(false)
    processingStage,    \* useState("waiting")
    generatedMusicUrl,  \* useState(null): 0 is null, otherwise an object URL
    generatedBlob,      \* useState(null): 0 is null, otherwise a blob
    generatedSongs,     \* useState([]): the song catalog, newest first
    showPlaylist,       \* useState(false)
    pc,                 \* where the run of handleGenerateMusic is suspended
    closure,            \* props and state the running handler captured
    urlBlob,            \* object URLs created so far: urlBlob[u] is u's blob
    revoked,            \* object URLs passed to URL.revokeObjectURL
    pendingPlay,        \* variant B: songs whose audio.play() has not settled
    errorToasts,        \* toast.error calls of the latest run
    rejected,           \* the latest invocation was refused: inputs missing
    raised,             \* what threw in the latest run: a fault, "save",
                        \* "mood", or "none"
    songCount,          \* songs built by processOutput so far
    runResult,          \* "none", "running", "succeeded" or "failed"
    atStart,            \* catalog, blob and URL when the latest run started
    abandoned,          \* the caller withdrew or replaced the run's inputs
    runCount,           \* runs started so far
    appended,           \* every song handed to saveSongOption that was stored
    originalBuffer,     \* generateMusicFromAudio: the decoded input buffer
    dspMood,            \* generateMusicFromAudio: its mood argument
    outputBuffer,       \* generateMusicFromAudio: the transformed buffer
    wavInput,           \* encodeWAV: its buffer argument
    wavResult,          \* encodeWAV: what the call produced
    dspPc,              \* how far the signal path has got
    reads,              \* which copy's loop ran, and the indices of
                        \* inputData it read
    aiSuggestedMood,    \* Index: useState(null), the detector's suggestion
    activeTab,          \* Index: useState("record")
    isDetecting,        \* EmotionDetector: useState(false)
    detectedEmotion,    \* EmotionDetector: useState(null)
    isRecording,        \* AudioRecorder: useState(false)
    isPaused,           \* AudioRecorder: useState(false)
    recordingTime,      \* AudioRecorder: useState(0), seconds counted
    recordingBlob,      \* AudioRecorder: useState(null), 0 is null;
                        \* blob r is the one made from recorder r
    audioUrl,           \* AudioRecorder: useState(null), 0 is null
    mediaRecorderRef,   \* AudioRecorder: the current MediaRecorder, 0 is null
    timerRef,           \* AudioRecorder: TRUE while the interval is running
    mediaRecorders,     \* every MediaRecorder constructed so far: its state,
                        \* whether its stop event is queued, and whether it
                        \* was stopped before the minimum time
    pendingStarts,      \* startRecording calls waiting for getUserMedia:
                        \* the audioUrl each one captured
    recorderToast,      \* the recorder's latest toast
    suspended           \* an invocation of handleGenerateMusic other than
                        \* the one pc and closure describe: where it waits,
                        \* what it captured, whether it started first

vars == <<variant, audioBlob, selectedMood, isGenerating, processingStage,
          generatedMusicUrl, generatedBlob, generatedSongs, showPlaylist, pc,
          closure, urlBlob, revoked, pendingPlay, errorToasts, rejected,
          raised, songCount, runResult, atStart, abandoned, runCount,
          appended, originalBuffer, dspMood, outputBuffer, wavInput,
          wavResult, dspPc, reads, aiSuggestedMood, activeTab, isDetecting,
          detectedEmotion,
          isRecording, isPaused, recordingTime, recordingBlob, audioUrl,
          mediaRecorderRef, timerRef, mediaRecorders, pendingStarts,
          recorderToast, suspended>>

\* The variables of the component.
componentVars ==
    <<variant, audioBlob, selectedMood, isGenerating, processingStage,
      generatedMusicUrl, generatedBlob, generatedSongs, showPlaylist, pc,
      closure, urlBlob, revoked, pendingPlay, errorToasts, rejected, raised,
      songCount, runResult, atStart, abandoned, runCount, appended>>

\* The variables of the signal path (transform and WAV encoder).
dspVars == <<originalBuffer, dspMood, outputBuffer, wavInput, wavResult,
             dspPc, reads>>

\* The variables of the Index page and of its emotion detector.
pageVars == <<aiSuggestedMood, activeTab, isDetecting, detectedEmotion>>

\* The variables of the recorder.
recorderVars == <<isRecording, isPaused, recordingTime, recordingBlob,
                  audioUrl, mediaRecorderRef, timerRef, mediaRecorders,
                  pendingStarts, recorderToast>>

----------------------------------------------------------------------------
(* Bounds of the model *)

MaxRuns == 3
MaxAppends == 12
MaxRecordings == 2

(* Program constants *)

CatalogCap == 10
VoiceDuration == 30

Null == 0
NoMood == "none"
Moods == {"happy", "calm", "energetic", "sad", "angry"}
Recordings == 1..MaxRecordings

\* The moods the catalog specification generates songs for.
CatalogMoods == {"happy", "sad"}

Min(a, b) == IF a < b THEN a ELSE b
Max(a, b) == IF a > b THEN a ELSE b

\* No AudioBuffer, and no result of encodeWAV yet.
NoBuffer == [sampleRate |-> 0, numberOfChannels |-> 0, length |-> 0,
             channels |-> <<>>]
NoResult == [outcome |-> "none", bytes |-> <<>>, offset |-> 0,
             writes |-> <<>>]
\* No loop of the transform has run.
NoReads == [copy |-> "none", indices |-> {}]

\* Array.prototype.slice(0, n) on a sequence.
Slice0(s, n) == SubSeq(s, 1, Min(Len(s), n))

\* The steps of processOutput that can throw; "none" is a run of it that
\* returns a song.
Faults == {"none", "decode", "transform", "encode", "construct"}

NoError == "none"

----------------------------------------------------------------------------
(* Object URLs *)

CreatedUrls == 1..Len(urlBlob)
LiveUrls == CreatedUrls \ revoked

\* URL.createObjectURL(blob): the URL it returns, and the registry after it.
createObjectURL(registry) == Len(registry) + 1
Registered(registry, blob) == Append(registry, blob)

----------------------------------------------------------------------------
(* Pure parts of the component *)

\* getMoodSelection: throws when no mood is selected.
getMoodSelectionThrows(mood) ==
    IF mood = NoMood THEN "MoodNotFoundException" ELSE NoError

\* processOutput's catch: whatever generateMusicFromAudio or the song
\* construction throws is replaced by a SongGeneratorException.
processOutputThrowsButEncode(fault) ==
    IF fault \notin {"none", "encode"} THEN "SongGeneratorException"
    ELSE NoError
processOutputThrows(fault) ==
    IF fault # "none" THEN "SongGeneratorException" ELSE NoError

\* processOutput's result when nothing throws: the song, whose url is a new
\* object URL of the generated blob.  The id and the blob are numbered by
\* the count n of songs built before; title and createdAt (clock readings)
\* are left out.
processOutputSong(mood, registry, n) ==
    [id |-> n + 1, moodType |-> mood, duration |-> VoiceDuration,
     blob |-> n + 1, url |-> createObjectURL(registry)]

\* saveSongOption's catch: a failure of the update is replaced by a
\* SaveSongException.
saveSongOptionThrows(updateFails) ==
    IF updateFails THEN "SaveSongException" ELSE NoError

\* saveSongOption's state update: prev => [song, ...prev].slice(0, 10)
saveSongOptionNoSlice(song, prev) == <<song>> \o prev
saveSongOptionAtEnd(song, prev) ==
    IF Len(prev) < CatalogCap THEN Append(prev, song)
    ELSE Append(Tail(prev), song)
saveSongOptionCaptured(song, prev) ==
    Slice0(<<song>> \o atStart.songs, CatalogCap)
saveSongOption(song, prev) == Slice0(<<song>> \o prev, CatalogCap)

\* The catch of handleGenerateMusic: the error toast it shows for `error`.
CatchReportSilentSave(error) ==
    IF error \in {"MoodNotFoundException", "SongGeneratorException"}
    THEN <<error>>
    ELSE IF error = "SaveSongException" THEN <<>>
    ELSE <<"Generation failed">>
CatchReport(error) ==
    IF error \in {"MoodNotFoundException", "SongGeneratorException",
                  "SaveSongException"}
    THEN <<error>>
    ELSE <<"Generation failed">>

\* The Generate Music button is rendered only without a generated URL, and
\* is disabled during a run and without the two inputs.
GenerateButtonEnabledWhileGenerating ==
    /\ generatedMusicUrl = Null
    /\ audioBlob # Null
    /\ selectedMood # NoMood
GenerateButtonEnabled ==
    /\ generatedMusicUrl = Null
    /\ ~isGenerating
    /\ audioBlob # Null
    /\ selectedMood # NoMood

\* The guard of handleGenerateMusic: !audioBlob || !selectedMood
MissingInputAudioOnly == audioBlob = Null
MissingInput == audioBlob = Null \/ selectedMood = NoMood

----------------------------------------------------------------------------
(* The signal path: samples and arithmetic *)

\* Samples are fixed-point numbers in units of 1/Scale (the code's Float32
\* values to four decimals); a product is cut back to that precision.
Scale == 100 * 100
Trunc(n, d) == IF n >= 0 THEN n \div d ELSE -((-n) \div d)
Mul(x, y) == Trunc(x * y, Scale)
\* A decimal coefficient of the code, given in hundredths: Pct(80) is 0.8.
Pct(p) == p * (Scale \div 100)
Abs(x) == IF x < 0 THEN -x ELSE x
Sign(x) == IF x > 0 THEN 1 ELSE IF x < 0 THEN -1 ELSE 0

\* Math.floor(i * p/100) for an index i >= 0.
FloorTimes(i, p) == (i * p) \div 100

\* The sample values, sample rates and shapes of the input buffers.  The
\* rates 2 and 4 bring the delays of 0.3 s to 0.5 s inside a buffer of a few
\* samples; 44100 is the rate of a decoded recording.
InputSamples == {-Scale, 0, Scale \div 2}
SampleRates == {2, 4, 44100}
ChannelCounts == {1, 2}
\* A buffer holds at most MaxSamples samples over all its channels.
MaxSamples == 5
TransformMoods == Moods \cup {"other"}

\* Math.random() * 0.1 - 0.05 lies in [-0.05, 0.05): its two extremes.
Dither == {-(Scale \div 20), (Scale \div 20) - 1}

\* Math.tanh, Math.sqrt and Math.pow(x, 0.7) on the values the transform
\* applies them to (input samples times 1.5 or 1.25; input magnitudes).
TanhTable == (0 :> 0) @@ (6250 :> 5546) @@ (7500 :> 6351) @@
             (12500 :> 8483) @@ (15000 :> 9051)
tanh(x) == Sign(x) * TanhTable[Abs(x)]
SqrtTable == (0 :> 0) @@ (5000 :> 7071) @@ (10000 :> 10000)
sqrt(x) == SqrtTable[x]
PowTable == (0 :> 0) @@ (5000 :> 6156) @@ (10000 :> 10000)
pow07(x) == PowTable[x]

\* Math.exp(-3.0 / (sampleRate * 0.7)) for the sample rates above.
DecayTable == (2 :> 1173) @@ (4 :> 3425) @@ (44100 :> 9999)
\* Math.sin(i / 8000 * Math.PI) for the first few indices, where
\* sin x = x to the precision kept.
sinWave(i) == (3927 * i) \div 1000

\* Element i (from 0) of a channel's data.
At(data, i) == data[i + 1]

\* The read index of a loop that changes the tempo:
\* Math.floor(i * p/100) % inputData.length
newIndexUnwrapped(i, p, length) == FloorTimes(i, p)
newIndex(i, p, length) == FloorTimes(i, p) % length

\* An echo d/100 seconds back: taken when i > sampleRate * d/100, read at
\* i - Math.floor(sampleRate * d/100).
echoTaken(i, d, sampleRate) == 100 * i > d * sampleRate
echoIndex(i, d, sampleRate) == i - ((d * sampleRate) \div 100)

\* An AudioBuffer: a sample rate and numberOfChannels channels of length
\* samples each.
AudioBuffer(rate, chans) ==
    [sampleRate |-> rate, numberOfChannels |-> Len(chans),
     length |-> Len(chans[1]), channels |-> chans]
Shapes ==
    {shape \in ChannelCounts \X (1..MaxSamples) :
        shape[1] * shape[2] <= MaxSamples}
InputBuffers ==
    UNION {{AudioBuffer(rate, chans) :
               rate \in SampleRates,
               chans \in [1..shape[1] -> [1..shape[2] -> InputSamples]]} :
           shape \in Shapes}

----------------------------------------------------------------------------
(* The transform of generateMusicFromAudio, one channel at a time.  The
   version is "A" (MusicGenerator.tsx) or "B" (part_000); length is
   outputData.length, the bound of every loop. *)

\* case 'happy': a faster read index, gain 0.8, a random dither per sample.
happy(version, inputData, length, dither) ==
    [k \in 1..length |->
        LET i == k - 1
            index == newIndex(i, IF version = "A" THEN 105 ELSE 115,
                              Len(inputData))
        IN Mul(At(inputData, index), Pct(80)) + dither[k]]

\* case 'calm' of MusicGenerator.tsx: the first n output samples.  A slower
\* read index, feedback from the two previous outputs, and an echo of the
\* input half a second back.
RECURSIVE calmA(_, _, _)
calmA(inputData, sampleRate, n) ==
    IF n = 0 THEN <<>>
    ELSE LET outputData == calmA(inputData, sampleRate, n - 1)
             i == n - 1
             index == newIndex(i, 85, Len(inputData))
             prev1 == IF i > 0 THEN At(outputData, i - 1) ELSE 0
             prev2 == IF i > 1 THEN At(outputData, i - 2) ELSE 0
             dry == Mul(Mul(At(inputData, index), Pct(50))
                          + Mul(prev1, Pct(30)) + Mul(prev2, Pct(20)),
                        Pct(70))
             echo == IF echoTaken(i, 50, sampleRate)
                     THEN Mul(At(inputData,
                                 Max(0, echoIndex(i, 50, sampleRate))),
                              Pct(15))
                     ELSE 0
         IN Append(outputData, dry + echo)

\* case 'calm' of part_000: the loop's state after n samples.  reverb holds
\* the entries of reverbBuffer from the first one written on (the entries
\* before them are zero); reverbLength is the buffer's length.
RECURSIVE calmB(_, _, _)
calmB(inputData, sampleRate, n) ==
    IF n = 0
    THEN [outputData |-> <<>>, prev1 |-> 0, prev2 |-> 0, prev3 |-> 0,
          reverb |-> <<>>]
    ELSE LET before == calmB(inputData, sampleRate, n - 1)
             i == n - 1
             decay == DecayTable[sampleRate]
             reverbLength == (7 * sampleRate + 9) \div 10
             fadeInSamples == (5 * sampleRate) \div 10
             filterStrength == Pct(85)
             index == newIndex(i, 80, Len(inputData))
             base == Mul(At(inputData, index), Pct(50))
             faded == IF i < fadeInSamples
                      THEN Trunc(base * i, fadeInSamples)
                      ELSE base
             sample == Mul(faded, Scale - filterStrength)
                       + Mul(Mul(before.prev1, filterStrength), Pct(70))
                       + Mul(Mul(before.prev2, filterStrength), Pct(20))
                       + Mul(Mul(before.prev3, filterStrength), Pct(10))
             cleared == IF i % 500 = 0 THEN <<>> ELSE before.reverb
             kept == IF Len(cleared) >= reverbLength
                     THEN Tail(cleared) ELSE cleared
             shifted == [j \in 1..Len(kept) |-> Mul(kept[j], decay)]
             Sum[j \in 0..Len(shifted)] ==
                 IF j = 0 THEN 0 ELSE Sum[j - 1] + shifted[j]
             reverbSample == IF i > 0
                             THEN Mul(Sum[Len(shifted)] + sample, Pct(20))
                             ELSE 0
             mixed == Mul(sample, Pct(60)) + Mul(reverbSample, Pct(40))
             waved == IF i % 8000 < 4000
                      THEN Mul(mixed, Scale + Mul(Pct(5), sinWave(i)))
                      ELSE mixed
             clipped == Max(-Pct(90), Min(Pct(90), waved))
         IN [outputData |-> Append(before.outputData, clipped),
             prev1 |-> sample, prev2 |-> before.prev1,
             prev3 |-> before.prev2,
             reverb |-> IF i > 0 THEN Append(shifted, sample) ELSE cleared]

calm(version, inputData, length, sampleRate) ==
    IF version = "A"
    THEN calmA(inputData, sampleRate, length)
    ELSE calmB(inputData, sampleRate, length).outputData

\* case 'energetic': tanh saturation and a beat gain.  MusicGenerator.tsx
\* tests i % (sampleRate / 4) < 1000, a real-valued remainder; part_000
\* tests i % floor(sampleRate / 3) < floor(sampleRate / 12), which is false
\* when the divisor is 0 (the remainder is NaN).
beatEffect(version, i, sampleRate) ==
    IF version = "A"
    THEN IF (4 * i) % sampleRate < 4 * 1000 THEN Pct(120) ELSE Scale
    ELSE IF /\ sampleRate \div 3 > 0
            /\ i % (sampleRate \div 3) < sampleRate \div 12
         THEN Pct(140) ELSE Scale
energetic(version, inputData, length, sampleRate) ==
    [k \in 1..length |->
        LET i == k - 1
            index == newIndex(i, 120, Len(inputData))
            distorted == IF version = "A"
                         THEN tanh(Mul(At(inputData, i), Pct(150)))
                         ELSE tanh(Mul(At(inputData, index), Pct(125)))
        IN Mul(distorted, beatEffect(version, i, sampleRate))]

\* case 'sad': a slower read index, gain 0.7, and an echo of the input
\* 0.3 s (part_000: 0.45 s) back.
sad(version, inputData, length, sampleRate) ==
    [k \in 1..length |->
        LET i == k - 1
            stretch == IF version = "A" THEN 90 ELSE 85
            delay == IF version = "A" THEN 30 ELSE 45
            gain == IF version = "A" THEN Pct(30) ELSE Pct(35)
            index == newIndex(i, stretch, Len(inputData))
            echo == IF echoTaken(i, delay, sampleRate)
                    THEN Mul(At(inputData, echoIndex(i, delay, sampleRate)),
                             gain)
                    ELSE 0
        IN Mul(At(inputData, index), Pct(70)) + echo]

\* case 'angry': root distortion and a bass gain; part_000 adds an
\* irregular beat gain.
irregularBeat(i, sampleRate) ==
    IF /\ sampleRate \div 2 > 0
       /\ (i + ((10 * i) \div 17)) % (sampleRate \div 2) < sampleRate \div 8
    THEN Pct(160) ELSE Scale
\* The angry branch adding the bass gain's excess instead of multiplying by
\* the gain.
angryAddsBoost(version, inputData, length, sampleRate) ==
    [k \in 1..length |->
        LET i == k - 1
            x == At(inputData, i)
            distorted == IF version = "A" THEN Sign(x) * sqrt(Abs(x))
                         ELSE Sign(x) * pow07(Abs(x))
        IN distorted + (IF i % 2 = 0 THEN Pct(30) ELSE 0)]
angry(version, inputData, length, sampleRate) ==
    [k \in 1..length |->
        LET i == k - 1
            x == At(inputData, i)
        IN IF version = "A"
           THEN Mul(Sign(x) * sqrt(Abs(x)),
                    IF i % 2 = 0 THEN Pct(130) ELSE Scale)
           ELSE Mul(Mul(Sign(x) * pow07(Abs(x)),
                        IF i % 3 = 0 THEN Pct(140) ELSE Scale),
                    irregularBeat(i, sampleRate))]

\* The default branch reading through sad's slower index.
copySlowed(inputData, length) ==
    [k \in 1..length |->
        At(inputData, FloorTimes(k - 1, 90) % Len(inputData))]

\* default: the copy.
copy(inputData, length) == [k \in 1..length |-> At(inputData, k - 1)]

\* createBuffer called with the context's own sample rate.
createBufferContextRate(numberOfChannels, length, sampleRate) ==
    [sampleRate |-> 48000, numberOfChannels |-> numberOfChannels,
     length |-> length,
     channels |-> [c \in 1..numberOfChannels |-> [k \in 1..length |-> 0]]]

\* audioContext.createBuffer: a zero-filled buffer of the given shape.
createBuffer(numberOfChannels, length, sampleRate) ==
    [sampleRate |-> sampleRate, numberOfChannels |-> numberOfChannels,
     length |-> length,
     channels |-> [c \in 1..numberOfChannels |-> [k \in 1..length |-> 0]]]

\* The switch on the mood, for one channel.
transformChannel(version, mood, inputData, length, sampleRate, dither) ==
    CASE mood = "happy" -> happy(version, inputData, length, dither)
      [] mood = "calm" -> calm(version, inputData, length, sampleRate)
      [] mood = "energetic" ->
             energetic(version, inputData, length, sampleRate)
      [] mood = "sad" -> sad(version, inputData, length, sampleRate)
      [] mood = "angry" -> angry(version, inputData, length, sampleRate)
      [] OTHER -> copy(inputData, length)

\* originalBuffer.getChannelData(channel): the data of that channel, read
\* by the loop as inputData.
getChannelDataFirst(buffer, channel) == buffer.channels[1]
getChannelData(buffer, channel) == buffer.channels[channel + 1]

\* The output of createBuffer with every channel's loop run over it.  The
\* dither gives Math.random's draws, per channel and sample.
transform(version, buffer, mood, dither) ==
    LET created == createBuffer(buffer.numberOfChannels, buffer.length,
                                buffer.sampleRate)
    IN [created EXCEPT !.channels =
           [c \in 1..created.numberOfChannels |->
               IF c <= buffer.numberOfChannels
               THEN transformChannel(version, mood,
                                     getChannelData(buffer, c - 1),
                                     Len(created.channels[c]),
                                     buffer.sampleRate, dither[c])
               ELSE created.channels[c]]]

\* The buffer whose channel data the loop writes as outputData:
\* outputBuffer.getChannelData(channel).
outputDataOfOriginal(channel) == "originalBuffer"
outputDataOf(channel) == "outputBuffer"

\* The two buffers when the loops are done: each channel's loop has
\* written its samples into the buffer outputData belongs to.
transformBuffers(version, buffer, mood, dither) ==
    LET created == createBuffer(buffer.numberOfChannels, buffer.length,
                                buffer.sampleRate)
        before == [originalBuffer |-> buffer, outputBuffer |-> created]
        written == transform(version, buffer, mood, dither)
    IN [name \in {"originalBuffer", "outputBuffer"} |->
           [before[name] EXCEPT !.channels =
               [c \in 1..before[name].numberOfChannels |->
                   IF outputDataOf(c - 1) = name
                   THEN written.channels[c]
                   ELSE before[name].channels[c]]]]

\* The copies of generateMusicFromAudio: "A" is MusicGenerator.tsx, "B" the
\* second copy in part_000 and "B1" the first copy there, whose calm branch
\* mixes three echoes instead of a reverb.
CopiesOf(version) == IF version = "A" THEN {"A"} ELSE {"B", "B1"}

\* The indices of inputData that iteration i of the mood's loop reads, for
\* a channel of the given length.
readIndices(codeCopy, mood, i, length, sampleRate) ==
    LET echoAt(d) == IF echoTaken(i, d, sampleRate)
                     THEN {echoIndex(i, d, sampleRate)} ELSE {}
        clampedEchoAt(d) == {Max(0, index) : index \in echoAt(d)}
    IN CASE mood = "happy" ->
                {newIndex(i, IF codeCopy = "A" THEN 105 ELSE 115, length)}
         [] mood = "calm" /\ codeCopy = "A" ->
                {newIndex(i, 85, length)} \cup clampedEchoAt(50)
         [] mood = "calm" /\ codeCopy = "B" -> {newIndex(i, 80, length)}
         [] mood = "calm" /\ codeCopy = "B1" ->
                {newIndex(i, 75, length)} \cup clampedEchoAt(20)
                    \cup clampedEchoAt(40) \cup clampedEchoAt(60)
         [] mood = "energetic" ->
                IF codeCopy = "A" THEN {i} ELSE {newIndex(i, 120, length)}
         [] mood = "sad" ->
                {newIndex(i, IF codeCopy = "A" THEN 90 ELSE 85, length)}
                    \cup echoAt(IF codeCopy = "A" THEN 30 ELSE 45)
         [] OTHER -> {i}

\* The draws of Math.random during one call: one per channel and sample for
\* the happy mood, none otherwise.
Draws(buffer, mood) ==
    IF mood = "happy"
    THEN [1..buffer.numberOfChannels -> [1..buffer.length -> Dither]]
    ELSE {[c \in 1..buffer.numberOfChannels |->
              [k \in 1..buffer.length |-> 0]]}

----------------------------------------------------------------------------
(* encodeWAV.  The ArrayBuffer is a sequence of bytes; byte offset k is
   element k + 1. *)

\* Byte k (from the low end) of an integer in two's complement, which is
\* what the DataView setters store after their ToUint32, ToUint16 or
\* ToInt16 conversion.
Byte(value, k) == (value \div (256 ^ k)) % 256

\* view.setUint8, setUint16 and setUint32 with littleEndian = true.
setUint8(view, offset, value) ==
    [view EXCEPT ![offset + 1] = Byte(value, 0)]
setUint16(view, offset, value) ==
    [view EXCEPT ![offset + 1] = Byte(value, 0),
                 ![offset + 2] = Byte(value, 1)]
\* setUint32 storing the high byte first.
setUint32BigEndian(view, offset, value) ==
    [view EXCEPT ![offset + 1] = Byte(value, 3),
                 ![offset + 2] = Byte(value, 2),
                 ![offset + 3] = Byte(value, 1),
                 ![offset + 4] = Byte(value, 0)]
setUint32(view, offset, value) ==
    [view EXCEPT ![offset + 1] = Byte(value, 0),
                 ![offset + 2] = Byte(value, 1),
                 ![offset + 3] = Byte(value, 2),
                 ![offset + 4] = Byte(value, 3)]

\* setInt16 storing the high byte first.
setInt16BigEndian(view, offset, numerator) ==
    LET value == Trunc(numerator, Scale)
    IN [view EXCEPT ![offset + 1] = Byte(value, 1),
                    ![offset + 2] = Byte(value, 0)]

\* view.setInt16 of a number given as numerator / Scale: ToInt16 drops the
\* fraction (toward zero) and keeps the low 16 bits.
setInt16(view, offset, numerator) ==
    LET value == Trunc(numerator, Scale)
    IN [view EXCEPT ![offset + 1] = Byte(value, 0),
                    ![offset + 2] = Byte(value, 1)]

\* The character codes of the four chunk tags.
RIFF == <<82, 73, 70, 70>>
WAVE == <<87, 65, 86, 69>>
FMT == <<102, 109, 116, 32>>
DATA == <<100, 97, 116, 97>>

\* writeUTFBytes: one setUint8 per character.
RECURSIVE writeUTFBytes(_, _, _)
writeUTFBytes(view, offset, string) ==
    IF string = <<>> THEN view
    ELSE writeUTFBytes(setUint8(view, offset, Head(string)), offset + 1,
                       Tail(string))

\* Lines 179-180: the clamp, and the product with 0x8000 or 0x7FFF, as a
\* numerator over Scale.
clampSample(sample) == Max(-Scale, Min(Scale, sample))
int16(sample) ==
    IF clampSample(sample) < 0
    THEN clampSample(sample) * 32768
    ELSE clampSample(sample) * 32767

\* The inner loop of lines 178-183 from the given channel on: one setInt16
\* per channel at the running offset.  writes logs the offsets written to.
RECURSIVE writeChannels(_, _, _, _)
writeChannels(buffer, state, i, channel) ==
    IF channel >= buffer.numberOfChannels THEN state
    ELSE writeChannels(
             buffer,
             [bytes |-> setInt16(state.bytes, state.offset,
                                 int16(At(buffer.channels[channel + 1], i))),
              offset |-> state.offset + 2,
              writes |-> Append(state.writes, state.offset)],
             i, channel + 1)

\* The sample loops with the channel loop outside the frame loop.
RECURSIVE writePlanar(_, _, _, _)
writePlanar(buffer, state, i, channel) ==
    IF channel >= buffer.numberOfChannels THEN state
    ELSE IF i >= buffer.length THEN writePlanar(buffer, state, 0, channel + 1)
    ELSE writePlanar(
             buffer,
             [bytes |-> setInt16(state.bytes, state.offset,
                                 int16(At(buffer.channels[channel + 1], i))),
              offset |-> state.offset + 2,
              writes |-> Append(state.writes, state.offset)],
             i + 1, channel)
writeFramesPlanar(buffer, state, i) == writePlanar(buffer, state, i, 0)

\* The outer loop of lines 177-184 from frame i on.
RECURSIVE writeFrames(_, _, _)
writeFrames(buffer, state, i) ==
    IF i >= buffer.length THEN state
    ELSE writeFrames(buffer, writeChannels(buffer, state, i, 0), i + 1)

\* Lines 148-168: the allocation and the 44 header bytes.
writeHeader(buffer) ==
    LET numOfChan == buffer.numberOfChannels
        length == buffer.length * numOfChan * 2
        sampleRate == buffer.sampleRate
        result == [k \in 1..(44 + length) |-> 0]
        v1 == writeUTFBytes(result, 0, RIFF)
        v2 == setUint32(v1, 4, 36 + length)
        v3 == writeUTFBytes(v2, 8, WAVE)
        v4 == writeUTFBytes(v3, 12, FMT)
        v5 == setUint32(v4, 16, 16)
        v6 == setUint16(v5, 20, 1)
        v7 == setUint16(v6, 22, numOfChan)
        v8 == setUint32(v7, 24, sampleRate)
        v9 == setUint32(v8, 28, sampleRate * numOfChan * 2)
        v10 == setUint16(v9, 32, numOfChan * 2)
        v11 == setUint16(v10, 34, 16)
        v12 == writeUTFBytes(v11, 36, DATA)
    IN setUint32(v12, 40, length)

\* encodeWAV: the header, then the samples from offset 44 on.  The call
\* has no failing path: it always returns the ArrayBuffer.
encodeWAV(buffer) ==
    LET written == writeFrames(buffer,
                               [bytes |-> writeHeader(buffer), offset |-> 44,
                                writes |-> <<>>],
                               0)
    IN [outcome |-> "returned", bytes |-> written.bytes,
        offset |-> written.offset, writes |-> written.writes]

\* The buffers handed to encodeWAV: rendered audio, whose samples may lie
\* outside [-1, 1].
EncoderSamples ==
    {-(13 * Scale) \div 10, -Scale, -(3 * Scale) \div 10, 0,
     (7 * Scale) \div 10, Scale, (13 * Scale) \div 10}
EncoderRates == {8000, 44100}
MaxFrames == 2
EncoderShapes == ChannelCounts \X (1..MaxFrames)
ChannelData(shape) == [1..shape[1] -> [1..shape[2] -> EncoderSamples]]

----------------------------------------------------------------------------
(* Initial state: a freshly mounted component with any props *)

InitComponent ==
    /\ variant \in {"A", "B"}
    /\ audioBlob \in {Null} \cup Recordings
    /\ selectedMood \in {NoMood} \cup Moods
    /\ isGenerating = FALSE
    /\ processingStage = "waiting"
    /\ generatedMusicUrl = Null
    /\ generatedBlob = Null
    /\ generatedSongs = <<>>
    /\ showPlaylist = FALSE
    /\ pc = "idle"
    /\ closure = [audioBlob |-> Null, selectedMood |-> NoMood,
                  generatedMusicUrl |-> Null]
    /\ urlBlob = <<>>
    /\ revoked = {}
    /\ pendingPlay = {}
    /\ errorToasts = <<>>
    /\ rejected = FALSE
    /\ raised = "none"
    /\ songCount = 0
    /\ runResult = "none"
    /\ atStart = [songs |-> <<>>, blob |-> Null, url |-> Null]
    /\ abandoned = FALSE
    /\ runCount = 0
    /\ appended = <<>>

\* The signal path at rest.
InitDsp ==
    /\ originalBuffer = NoBuffer
    /\ dspMood = NoMood
    /\ outputBuffer = NoBuffer
    /\ wavInput = NoBuffer
    /\ wavResult = NoResult
    /\ dspPc = "off"
    /\ reads = NoReads

\* The Index page showing the tab the props allow, nothing suggested.
InitPage ==
    /\ aiSuggestedMood = NoMood
    /\ activeTab = IF audioBlob = Null THEN "record"
                   ELSE IF selectedMood = NoMood THEN "mood" ELSE "generate"
    /\ isDetecting = FALSE
    /\ detectedEmotion = NoMood

\* The recorder before its first recording.
InitRecorder ==
    /\ isRecording = FALSE
    /\ isPaused = FALSE
    /\ recordingTime = 0
    /\ recordingBlob = Null
    /\ audioUrl = Null
    /\ mediaRecorderRef = Null
    /\ timerRef = FALSE
    /\ mediaRecorders = <<>>
    /\ pendingStarts = <<>>
    /\ recorderToast = "none"

\* No second invocation of the handler.
InitInvocations ==
    suspended = [pc |-> "idle",
                 closure |-> [audioBlob |-> Null, selectedMood |-> NoMood,
                              generatedMusicUrl |-> Null],
                 older |-> FALSE]

Init ==
    InitComponent /\ InitDsp /\ InitPage /\ InitRecorder /\ InitInvocations

----------------------------------------------------------------------------
(* handleGenerateMusic *)

\* Variant B revokes and clears the presented URL before the run starts;
\* variant A does nothing there.
StartCleanup ==
    IF variant = "B" /\ generatedMusicUrl # Null
    THEN /\ revoked' = revoked \cup {generatedMusicUrl}
         /\ generatedMusicUrl' = Null
    ELSE UNCHANGED <<revoked, generatedMusicUrl>>

\* The catch block without the finally block's setIsGenerating(false).
CatchAndFinallyStillGenerating(error) ==
    /\ errorToasts' = CatchReport(error)
    /\ runResult' = "failed"
    /\ isGenerating' = isGenerating
    /\ processingStage' = "complete"
    /\ pc' = "idle"

\* The catch block alone, as if there were no finally block.
CatchWithoutFinally(error) ==
    /\ errorToasts' = CatchReport(error)
    /\ runResult' = "failed"
    /\ pc' = "idle"
    /\ UNCHANGED <<isGenerating, processingStage>>

\* The catch and finally blocks: one error toast, then isGenerating false
\* and the stage "complete".
CatchAndFinally(error) ==
    /\ errorToasts' = CatchReport(error)
    /\ runResult' = "failed"
    /\ isGenerating' = FALSE
    /\ processingStage' = "complete"
    /\ pc' = "idle"

\* Second segment, with setProcessingStage("extracting") left out.
TimerOneFiresNoStage ==
    /\ pc = "timer1"
    /\ pc' = "timer2"
    /\ UNCHANGED <<variant, audioBlob, selectedMood, isGenerating,
                   processingStage, generatedMusicUrl, generatedBlob,
                   generatedSongs, showPlaylist, closure, urlBlob, revoked,
                   pendingPlay, errorToasts, rejected, raised, songCount,
                   runResult, atStart, abandoned, runCount, appended>>
    /\ UNCHANGED dspVars
    /\ UNCHANGED <<pageVars, recorderVars, suspended>>

\* First segment: the guard, then up to the first timer.
handleGenerateMusic ==
    IF MissingInput
    THEN /\ rejected' = TRUE
         /\ UNCHANGED <<variant, audioBlob, selectedMood, isGenerating,
                        processingStage, generatedMusicUrl, generatedBlob,
                        generatedSongs, showPlaylist, pc, closure, urlBlob,
                        revoked, pendingPlay, errorToasts, raised, songCount,
                        runResult, atStart, abandoned, runCount, appended>>
    ELSE /\ StartCleanup
         /\ isGenerating' = TRUE
         /\ processingStage' = "analyzing"
         /\ pc' = "timer1"
         /\ closure' = [audioBlob |-> audioBlob,
                        selectedMood |-> selectedMood,
                        generatedMusicUrl |-> generatedMusicUrl]
         /\ errorToasts' = <<>>
         /\ raised' = "none"
         /\ rejected' = FALSE
         /\ runResult' = "running"
         /\ atStart' = [songs |-> generatedSongs, blob |-> generatedBlob,
                        url |-> generatedMusicUrl]
         /\ abandoned' = FALSE
         /\ runCount' = runCount + 1
         /\ UNCHANGED <<variant, audioBlob, selectedMood, generatedBlob,
                        generatedSongs, showPlaylist, urlBlob, pendingPlay,
                        songCount, appended>>

\* The user clicks the enabled Generate Music button.
GenerateClicked ==
    /\ GenerateButtonEnabled
    /\ runCount < MaxRuns
    /\ handleGenerateMusic
    /\ UNCHANGED dspVars
    /\ UNCHANGED <<pageVars, recorderVars, suspended>>

\* The handler is invoked while an input is missing (the button is then
\* disabled; the handler's own guard is what answers).
GenerateWithoutInputs ==
    /\ (audioBlob = Null \/ selectedMood = NoMood)
    /\ handleGenerateMusic
    /\ UNCHANGED dspVars
    /\ UNCHANGED <<pageVars, recorderVars, suspended>>

\* Second segment: the first timer fired.
TimerOneFires ==
    /\ pc = "timer1"
    /\ processingStage' = "extracting"
    /\ pc' = "timer2"
    /\ UNCHANGED <<variant, audioBlob, selectedMood, isGenerating,
                   generatedMusicUrl, generatedBlob, generatedSongs,
                   showPlaylist, closure, urlBlob, revoked, pendingPlay,
                   errorToasts, rejected, raised, songCount, runResult,
                   atStart, abandoned, runCount, appended>>
    /\ UNCHANGED dspVars
    /\ UNCHANGED <<pageVars, recorderVars, suspended>>

\* Third segment: the second timer fired; the stage becomes "generating",
\* getMoodSelection runs and processOutput starts decoding.
TimerTwoFires ==
    /\ pc = "timer2"
    /\ IF getMoodSelectionThrows(closure.selectedMood) # NoError
       THEN CatchAndFinally(getMoodSelectionThrows(closure.selectedMood))
       ELSE /\ processingStage' = "generating"
            /\ pc' = "render"
            /\ UNCHANGED <<isGenerating, errorToasts, runResult>>
    /\ raised' = (IF closure.selectedMood = NoMood THEN "mood" ELSE "none")
    /\ UNCHANGED <<variant, audioBlob, selectedMood, generatedMusicUrl,
                   generatedBlob, generatedSongs, showPlaylist, closure,
                   urlBlob, revoked, pendingPlay, rejected, songCount,
                   atStart, abandoned, runCount, appended>>
    /\ UNCHANGED dspVars
    /\ UNCHANGED <<pageVars, recorderVars, suspended>>

\* The URL presented after a successful run.  Variant A revokes the URL the
\* handler captured, if any, and creates a second object URL of the song's
\* blob; variant B presents the song's own URL.
PresentedUrl(song, registry) ==
    IF variant = "A" THEN createObjectURL(registry) ELSE song.url
PresentedRegistry(song, registry) ==
    IF variant = "A" THEN Registered(registry, song.blob) ELSE registry
PresentedRevoked ==
    IF variant = "A" /\ closure.generatedMusicUrl # Null
    THEN revoked \cup {closure.generatedMusicUrl}
    ELSE revoked

\* Last segment: generateMusicFromAudio settled.  processOutput throws, or
\* returns the song; then saveSongOption throws, or the song is stored and
\* presented.
ProcessOutputSettles(fault, updateFails) ==
    /\ pc = "render"
    /\ raised' = (IF fault # "none" THEN fault
                  ELSE IF updateFails THEN "save" ELSE "none")
    /\ LET song == processOutputSong(closure.selectedMood, urlBlob, songCount)
           registry == Registered(urlBlob, song.blob)
       IN IF processOutputThrows(fault) # NoError
          THEN /\ CatchAndFinally(processOutputThrows(fault))
               /\ UNCHANGED <<generatedSongs, generatedBlob,
                              generatedMusicUrl, urlBlob, revoked, songCount,
                              appended>>
          ELSE IF saveSongOptionThrows(updateFails) # NoError
          THEN /\ CatchAndFinally(saveSongOptionThrows(updateFails))
               /\ urlBlob' = registry
               /\ songCount' = songCount + 1
               /\ UNCHANGED <<generatedSongs, generatedBlob,
                              generatedMusicUrl, revoked, appended>>
          ELSE /\ generatedSongs' = saveSongOption(song, generatedSongs)
               /\ appended' = Append(appended, song)
               /\ generatedBlob' = song.blob
               /\ revoked' = PresentedRevoked
               /\ urlBlob' = PresentedRegistry(song, registry)
               /\ generatedMusicUrl' = PresentedUrl(song, registry)
               /\ songCount' = songCount + 1
               /\ errorToasts' = <<>>
               /\ runResult' = "succeeded"
               /\ isGenerating' = FALSE
               /\ processingStage' = "complete"
               /\ pc' = "idle"
    /\ UNCHANGED <<variant, audioBlob, selectedMood, showPlaylist, closure,
                   pendingPlay, rejected, atStart, abandoned, runCount>>
    /\ UNCHANGED dspVars
    /\ UNCHANGED <<pageVars, recorderVars, suspended>>

----------------------------------------------------------------------------
(* The parent (Index) changes the props *)

\* handleRecordingComplete: a new recording becomes the audioBlob prop.
handleRecordingComplete(blob) ==
    /\ blob # audioBlob
    /\ audioBlob' = blob
    /\ abandoned' = (abandoned \/ pc # "idle")
    /\ UNCHANGED <<variant, selectedMood, isGenerating, processingStage,
                   generatedMusicUrl, generatedBlob, generatedSongs,
                   showPlaylist, pc, closure, urlBlob, revoked, pendingPlay,
                   errorToasts, rejected, raised, songCount, runResult,
                   atStart, runCount, appended>>
    /\ activeTab' = "mood"
    /\ UNCHANGED <<aiSuggestedMood, isDetecting, detectedEmotion>>
    /\ UNCHANGED <<dspVars, recorderVars, suspended>>

\* handleMoodSelect: the chosen mood becomes the selectedMood prop.
handleMoodSelect(mood) ==
    /\ mood # selectedMood
    /\ selectedMood' = mood
    /\ abandoned' = (abandoned \/ pc # "idle")
    /\ UNCHANGED <<variant, audioBlob, isGenerating, processingStage,
                   generatedMusicUrl, generatedBlob, generatedSongs,
                   showPlaylist, pc, closure, urlBlob, revoked, pendingPlay,
                   errorToasts, rejected, raised, songCount, runResult,
                   atStart, runCount, appended>>
    /\ activeTab' = "generate"
    /\ UNCHANGED <<aiSuggestedMood, isDetecting, detectedEmotion>>
    /\ UNCHANGED <<dspVars, recorderVars, suspended>>

----------------------------------------------------------------------------
(* The playlist *)

\* The playlist toggle is rendered with the generated track.
togglePlaylist ==
    /\ generatedMusicUrl # Null
    /\ showPlaylist' = ~showPlaylist
    /\ UNCHANGED <<variant, audioBlob, selectedMood, isGenerating,
                   processingStage, generatedMusicUrl, generatedBlob,
                   generatedSongs, pc, closure, urlBlob, revoked, pendingPlay,
                   errorToasts, rejected, raised, songCount, runResult,
                   atStart, abandoned, runCount, appended>>
    /\ UNCHANGED dspVars
    /\ UNCHANGED <<pageVars, recorderVars, suspended>>

PlaylistVisible == generatedMusicUrl # Null /\ showPlaylist

\* playSongFromPlaylist: the presented URL is revoked, then the song's URL
\* and blob are presented: at once in variant A, when audio.play()
\* resolves in variant B.
playSongFromPlaylist(i) ==
    /\ PlaylistVisible
    /\ i \in 1..Len(generatedSongs)
    /\ revoked' = revoked \cup {generatedMusicUrl}
    /\ IF variant = "A"
       THEN /\ generatedMusicUrl' = generatedSongs[i].url
            /\ generatedBlob' = generatedSongs[i].blob
            /\ UNCHANGED pendingPlay
       ELSE /\ pendingPlay' = pendingPlay \cup {generatedSongs[i]}
            /\ UNCHANGED <<generatedMusicUrl, generatedBlob>>
    /\ UNCHANGED <<variant, audioBlob, selectedMood, isGenerating,
                   processingStage, generatedSongs, showPlaylist, pc, closure,
                   urlBlob, errorToasts, rejected, raised, songCount,
                   runResult, atStart, abandoned, runCount, appended>>
    /\ UNCHANGED dspVars
    /\ UNCHANGED <<pageVars, recorderVars, suspended>>

\* Variant B: audio.play() settled.  When it resolves (the song's URL could
\* be loaded, so it is not a revoked one) the song's URL and blob are
\* presented; when it rejects only a toast is shown.
PlaySettles(song, resolved) ==
    /\ song \in pendingPlay
    /\ resolved => song.url \in LiveUrls
    /\ pendingPlay' = pendingPlay \ {song}
    /\ IF resolved
       THEN /\ generatedMusicUrl' = song.url
            /\ generatedBlob' = song.blob
       ELSE UNCHANGED <<generatedMusicUrl, generatedBlob>>
    /\ UNCHANGED <<variant, audioBlob, selectedMood, isGenerating,
                   processingStage, generatedSongs, showPlaylist, pc, closure,
                   urlBlob, revoked, errorToasts, rejected, raised, songCount,
                   runResult, atStart, abandoned, runCount, appended>>
    /\ UNCHANGED dspVars
    /\ UNCHANGED <<pageVars, recorderVars, suspended>>

----------------------------------------------------------------------------
(* The component *)

Next ==
    \/ GenerateClicked
    \/ GenerateWithoutInputs
    \/ TimerOneFires
    \/ TimerTwoFires
    \/ \E fault \in Faults, updateFails \in BOOLEAN :
           ProcessOutputSettles(fault, updateFails)
    \/ \E blob \in Recordings : handleRecordingComplete(blob)
    \/ \E mood \in Moods : handleMoodSelect(mood)
    \/ togglePlaylist
    \/ \E i \in 1..CatalogCap : playSongFromPlaylist(i)
    \/ \E song \in pendingPlay, resolved \in BOOLEAN :
           PlaySettles(song, resolved)

Spec == Init /\ [][Next]_vars

\* The component when every awaited step settles: each timer fires and
\* generateMusicFromAudio resolves or rejects.
AwaitedStepsSettle ==
    /\ WF_vars(TimerOneFires)
    /\ WF_vars(TimerTwoFires)
    /\ WF_vars(\E fault \in Faults, updateFails \in BOOLEAN :
                  ProcessOutputSettles(fault, updateFails))

SpecSettling == Init /\ [][Next]_vars /\ AwaitedStepsSettle

----------------------------------------------------------------------------
(* Two invocations of handleGenerateMusic *)

\* An invocation waits at an await (lines 303, 306, 318) while the event
\* loop runs another one: pc and closure now describe the other invocation.
OtherInvocationResumes ==
    /\ pc # "idle" \/ suspended.pc # "idle"
    /\ pc' = suspended.pc
    /\ closure' = suspended.closure
    /\ suspended' = [pc |-> pc, closure |-> closure,
                     older |-> ~suspended.older]
    /\ UNCHANGED <<variant, audioBlob, selectedMood, isGenerating,
                   processingStage, generatedMusicUrl, generatedBlob,
                   generatedSongs, showPlaylist, urlBlob, revoked,
                   pendingPlay, errorToasts, rejected, raised, songCount,
                   runResult, atStart, abandoned, runCount, appended>>
    /\ UNCHANGED <<dspVars, pageVars, recorderVars>>

\* The component with its button, where a click may arrive while another
\* invocation is waiting.
NextClicks == Next \/ OtherInvocationResumes

SpecClicks == Init /\ [][NextClicks]_vars

\* handleGenerateMusic called with both inputs present, whatever the
\* button shows: the handler has no guard of its own on isGenerating.
handleGenerateMusicCalled ==
    /\ pc = "idle"
    /\ ~MissingInput
    /\ runCount < MaxRuns
    /\ handleGenerateMusic
    /\ suspended' = [suspended EXCEPT !.older = (suspended.pc # "idle")]
    /\ UNCHANGED <<dspVars, pageVars, recorderVars>>

----------------------------------------------------------------------------
(* The recorder (AudioRecorder).  MediaRecorder r is mediaRecorders[r]; the
   blob its stop listener builds, and that blob's object URL, are r too. *)

MinRecordingTime == 30
MaxTime == 31
MaxRecorders == 3

\* stopRecording's test: recordingTime < minRecordingTime
tooShortNever(time) == FALSE
tooShort(time) == time < MinRecordingTime

\* The recorder whose stream ends at the given recordingTime: it stops and
\* its stop event is queued (the stream's tracks were stopped).
Ended(recorder, time) ==
    IF recorder.state = "inactive" \/ recorder.stopQueued THEN recorder
    ELSE [recorder EXCEPT !.stopQueued = TRUE,
                          !.short = time < MinRecordingTime]

\* The cleanup of the effect that depends on audioUrl (lines 33-48), run
\* when audioUrl has changed: the interval is cleared and the tracks of the
\* current stream are stopped, which ends the recorder on that stream.
EffectCleanup(recorders, current, time) ==
    [r \in 1..Len(recorders) |->
        IF r = current THEN Ended(recorders[r], time) ELSE recorders[r]]

Without(s, k) == SubSeq(s, 1, k - 1) \o SubSeq(s, k + 1, Len(s))

\* startRecording up to its await; the button is shown while not recording.
startRecording ==
    /\ ~isRecording
    /\ Len(mediaRecorders) + Len(pendingStarts) < MaxRecorders
    /\ pendingStarts' = Append(pendingStarts, audioUrl)
    /\ UNCHANGED <<isRecording, isPaused, recordingTime, recordingBlob,
                   audioUrl, mediaRecorderRef, timerRef, mediaRecorders,
                   recorderToast>>
    /\ UNCHANGED <<componentVars, dspVars, pageVars, suspended>>

\* getUserMedia settles for the k-th waiting call.  Granted: a new recorder
\* on the new stream with its listeners, the previous URL (as captured)
\* revoked and cleared, the state reset, the recorder and the timer
\* started; when audioUrl changed, the effect cleanup follows.  Refused:
\* the catch block's toast.
GetUserMediaSettles(k, granted) ==
    /\ k \in 1..Len(pendingStarts)
    /\ pendingStarts' = Without(pendingStarts, k)
    /\ IF granted
       THEN LET new == Len(mediaRecorders) + 1
                started == Append(mediaRecorders,
                                  [state |-> "recording",
                                   stopQueued |-> FALSE, short |-> FALSE])
                cleared == IF pendingStarts[k] # Null THEN Null
                           ELSE audioUrl
            IN /\ mediaRecorderRef' = new
               /\ audioUrl' = cleared
               /\ recordingBlob' = Null
               /\ recordingTime' = 0
               /\ isRecording' = TRUE
               /\ isPaused' = FALSE
               /\ recorderToast' = "Recording started"
               /\ IF cleared # audioUrl
                  THEN /\ mediaRecorders' = EffectCleanup(started, new, 0)
                       /\ timerRef' = FALSE
                  ELSE /\ mediaRecorders' = started
                       /\ timerRef' = TRUE
       ELSE /\ recorderToast' = "Microphone access denied"
            /\ UNCHANGED <<isRecording, isPaused, recordingTime,
                           recordingBlob, audioUrl, mediaRecorderRef,
                           timerRef, mediaRecorders>>
    /\ UNCHANGED <<componentVars, dspVars, pageVars, suspended>>

\* The interval fires: one more second.  A queued stop event is delivered
\* before the next second has passed.
TimerTicks ==
    /\ timerRef
    /\ recordingTime < MaxTime
    /\ \A r \in 1..Len(mediaRecorders) : ~mediaRecorders[r].stopQueued
    /\ recordingTime' = recordingTime + 1
    /\ UNCHANGED <<isRecording, isPaused, recordingBlob, audioUrl,
                   mediaRecorderRef, timerRef, mediaRecorders, pendingStarts,
                   recorderToast>>
    /\ UNCHANGED <<componentVars, dspVars, pageVars, suspended>>

\* stopRecording, the Stop button's handler.  Too early: a warning and
\* nothing else.  Otherwise the recorder is stopped (on a recorder that is
\* inactive already stop() throws in some browsers and does nothing in
\* others), the tracks are stopped, the timer cleared, the flags reset.
stopRecording(throws) ==
    /\ isRecording
    /\ mediaRecorderRef # Null
    /\ IF tooShort(recordingTime)
       THEN /\ recorderToast' = "Recording is too short"
            /\ UNCHANGED <<isRecording, isPaused, timerRef, mediaRecorders>>
       ELSE IF mediaRecorders[mediaRecorderRef].state = "inactive" /\ throws
       THEN UNCHANGED <<isRecording, isPaused, timerRef, mediaRecorders,
                        recorderToast>>
       ELSE /\ mediaRecorders' =
                   [mediaRecorders EXCEPT ![mediaRecorderRef] =
                       IF @.state = "inactive" THEN @
                       ELSE [Ended(@, recordingTime) EXCEPT
                                !.state = "inactive"]]
            /\ timerRef' = FALSE
            /\ isRecording' = FALSE
            /\ isPaused' = FALSE
            /\ recorderToast' = "Recording completed"
    /\ UNCHANGED <<recordingTime, recordingBlob, audioUrl, mediaRecorderRef,
                   pendingStarts>>
    /\ UNCHANGED <<componentVars, dspVars, pageVars, suspended>>

\* The stop listener of recorder r: the blob and its URL are stored; the
\* new audioUrl brings the effect cleanup.
StopEventFires(r) ==
    /\ r \in 1..Len(mediaRecorders)
    /\ mediaRecorders[r].stopQueued
    /\ recordingBlob' = r
    /\ audioUrl' = r
    /\ mediaRecorders' =
           EffectCleanup([mediaRecorders EXCEPT
                             ![r] = [@ EXCEPT !.stopQueued = FALSE,
                                              !.state = "inactive"]],
                         mediaRecorderRef, recordingTime)
    /\ timerRef' = FALSE
    /\ UNCHANGED <<isRecording, isPaused, recordingTime, mediaRecorderRef,
                   pendingStarts, recorderToast>>
    /\ UNCHANGED <<componentVars, dspVars, pageVars, suspended>>

\* pauseRecording: pause() throws on an inactive recorder.
pauseRecording ==
    /\ isRecording /\ ~isPaused
    /\ mediaRecorderRef # Null
    /\ mediaRecorders[mediaRecorderRef].state # "inactive"
    /\ mediaRecorders' =
           [mediaRecorders EXCEPT ![mediaRecorderRef].state = "paused"]
    /\ timerRef' = FALSE
    /\ isPaused' = TRUE
    /\ UNCHANGED <<isRecording, recordingTime, recordingBlob, audioUrl,
                   mediaRecorderRef, pendingStarts, recorderToast>>
    /\ UNCHANGED <<componentVars, dspVars, pageVars, suspended>>

\* resumeRecording: resume() throws on an inactive recorder.
resumeRecording ==
    /\ isRecording /\ isPaused
    /\ mediaRecorderRef # Null
    /\ mediaRecorders[mediaRecorderRef].state # "inactive"
    /\ mediaRecorders' =
           [mediaRecorders EXCEPT ![mediaRecorderRef].state = "recording"]
    /\ timerRef' = TRUE
    /\ isPaused' = FALSE
    /\ UNCHANGED <<isRecording, recordingTime, recordingBlob, audioUrl,
                   mediaRecorderRef, pendingStarts, recorderToast>>
    /\ UNCHANGED <<componentVars, dspVars, pageVars, suspended>>

\* handleComplete, the Use Recording button shown with a blob while not
\* recording: the blob goes to the page's onRecordingComplete.
handleComplete ==
    /\ ~isRecording
    /\ recordingBlob # Null
    /\ handleRecordingComplete(recordingBlob)

InitRecording == Init /\ audioBlob = Null /\ selectedMood = NoMood

NextRecording ==
    \/ startRecording
    \/ \E k \in 1..MaxRecorders, granted \in BOOLEAN :
           GetUserMediaSettles(k, granted)
    \/ TimerTicks
    \/ \E throws \in BOOLEAN : stopRecording(throws)
    \/ \E r \in 1..MaxRecorders : StopEventFires(r)
    \/ pauseRecording
    \/ resumeRecording
    \/ handleComplete

SpecRecording == InitRecording /\ [][NextRecording]_vars

----------------------------------------------------------------------------
(* The Index page: tabs and the emotion detector *)

Tabs == {"record", "mood", "generate"}

\* The disabled attribute of the tab triggers.
TabEnabled(tab) ==
    CASE tab = "record" -> TRUE
      [] tab = "mood" -> audioBlob # Null
      [] tab = "generate" -> selectedMood # NoMood /\ audioBlob # Null

\* Tabs onValueChange: the user opens an enabled tab.
setActiveTab(tab) ==
    /\ tab # activeTab
    /\ TabEnabled(tab)
    /\ activeTab' = tab
    /\ UNCHANGED <<aiSuggestedMood, isDetecting, detectedEmotion>>
    /\ UNCHANGED <<componentVars, dspVars, recorderVars, suspended>>

\* handleEmotionDetected: the page stores the detector's suggestion.
handleEmotionDetectedSelects(mood) ==
    /\ aiSuggestedMood' = mood
    /\ selectedMood' = mood
handleEmotionDetected(mood) ==
    /\ aiSuggestedMood' = mood
    /\ UNCHANGED selectedMood

\* handleDetectEmotion up to its await: the button of the mood tab is
\* enabled when a recording is present and no detection is running.
handleDetectEmotion ==
    /\ activeTab = "mood"
    /\ ~isDetecting
    /\ audioBlob # Null
    /\ isDetecting' = TRUE
    /\ UNCHANGED <<aiSuggestedMood, activeTab, detectedEmotion>>
    /\ UNCHANGED <<componentVars, dspVars, recorderVars, suspended>>

\* detectEmotionFromAudio settles: with a mood, which is shown and passed
\* to onEmotionDetected, or with an error; finally isDetecting is reset.
DetectionSettles(detected, mood) ==
    /\ isDetecting
    /\ isDetecting' = FALSE
    /\ IF detected
       THEN /\ detectedEmotion' = mood
            /\ handleEmotionDetected(mood)
       ELSE UNCHANGED <<detectedEmotion, aiSuggestedMood, selectedMood>>
    /\ UNCHANGED <<variant, audioBlob, isGenerating, processingStage,
                   generatedMusicUrl, generatedBlob, generatedSongs,
                   showPlaylist, pc, closure, urlBlob, revoked, pendingPlay,
                   errorToasts, rejected, raised, songCount, runResult,
                   atStart, abandoned, runCount, appended>>
    /\ UNCHANGED activeTab
    /\ UNCHANGED <<dspVars, recorderVars, suspended>>

\* The page as mounted: nothing recorded, nothing selected.
InitIndex == Init /\ audioBlob = Null /\ selectedMood = NoMood

NextIndex ==
    \/ \E tab \in Tabs : setActiveTab(tab)
    \/ handleDetectEmotion
    \/ \E detected \in BOOLEAN, mood \in Moods :
           DetectionSettles(detected, mood)
    \/ \E blob \in Recordings : handleRecordingComplete(blob)
    \/ \E mood \in Moods : handleMoodSelect(mood)
    \/ GenerateClicked
    \/ TimerOneFires
    \/ TimerTwoFires
    \/ \E fault \in Faults, updateFails \in BOOLEAN :
           ProcessOutputSettles(fault, updateFails)

SpecIndex == InitIndex /\ [][NextIndex]_vars

----------------------------------------------------------------------------
(* The catalog on its own: songs are built and stored one after another,   *)
(* as lines 318-320 of handleGenerateMusic do in a run where nothing       *)
(* throws.                                                                 *)

CatalogAppend(mood) ==
    /\ Len(appended) < MaxAppends
    /\ LET song == processOutputSong(mood, urlBlob, songCount)
       IN /\ urlBlob' = Registered(urlBlob, song.blob)
          /\ songCount' = songCount + 1
          /\ generatedSongs' = saveSongOption(song, generatedSongs)
          /\ appended' = Append(appended, song)
    /\ UNCHANGED <<variant, audioBlob, selectedMood, isGenerating,
                   processingStage, generatedMusicUrl, generatedBlob,
                   showPlaylist, pc, closure, revoked, pendingPlay,
                   errorToasts, rejected, raised, runResult, atStart,
                   abandoned, runCount>>
    /\ UNCHANGED dspVars
    /\ UNCHANGED <<pageVars, recorderVars, suspended>>

InitCatalog == Init /\ audioBlob = Null /\ selectedMood = NoMood

NextCatalog == \E mood \in CatalogMoods : CatalogAppend(mood)

SpecCatalog == InitCatalog /\ [][NextCatalog]_vars

\* Runs that completed one after another before any invocation overlaps.
EarlierRun(mood) ==
    /\ runCount = 0
    /\ mood = selectedMood
    /\ CatalogAppend(mood)

InitInterleaved == Init /\ audioBlob # Null /\ selectedMood # NoMood

NextInterleaved ==
    \/ \E mood \in Moods : EarlierRun(mood)
    \/ handleGenerateMusicCalled
    \/ OtherInvocationResumes
    \/ TimerOneFires
    \/ TimerTwoFires
    \/ \E fault \in Faults, updateFails \in BOOLEAN :
           ProcessOutputSettles(fault, updateFails)

SpecInterleaved == InitInterleaved /\ [][NextInterleaved]_vars

----------------------------------------------------------------------------
(* The transform on its own: generateMusicFromAudio from the decoded buffer
   to the transformed one, for any input buffer and mood *)

\* The loops over the channels of lines 72-126 (part_000 850-977).
TransformBuffer(dither) ==
    /\ dspPc = "decoded"
    /\ LET buffers ==
               transformBuffers(variant, originalBuffer, dspMood, dither)
       IN /\ originalBuffer' = buffers.originalBuffer
          /\ outputBuffer' = buffers.outputBuffer
    /\ dspPc' = "transformed"
    /\ UNCHANGED <<dspMood, wavInput, wavResult, reads>>
    /\ UNCHANGED componentVars
    /\ UNCHANGED <<pageVars, recorderVars, suspended>>

InitTransform ==
    /\ InitComponent
    /\ InitPage
    /\ InitRecorder
    /\ InitInvocations
    /\ audioBlob = Null
    /\ selectedMood = NoMood
    /\ originalBuffer \in InputBuffers
    /\ dspMood \in TransformMoods
    /\ outputBuffer = NoBuffer
    /\ wavInput = NoBuffer
    /\ wavResult = NoResult
    /\ dspPc = "decoded"
    /\ reads = NoReads

NextTransform ==
    \E dither \in Draws(originalBuffer, dspMood) : TransformBuffer(dither)

SpecTransform == InitTransform /\ [][NextTransform]_vars

----------------------------------------------------------------------------
(* The reads of the transform: the loops of one copy run over a silent
   buffer long enough for the faster read indices to pass its end *)

MaxLength == 24
ReadRates == {2, 4, 10, 44100}

\* The loop of one channel (all channels have the same length and so the
\* same read indices): every index of inputData it reads.
ReadChannel(codeCopy) ==
    /\ dspPc = "decoded"
    /\ reads' = [copy |-> codeCopy,
                 indices |-> UNION {readIndices(codeCopy, dspMood, i,
                                                originalBuffer.length,
                                                originalBuffer.sampleRate) :
                                       i \in 0..(originalBuffer.length - 1)}]
    /\ dspPc' = "read"
    /\ UNCHANGED <<originalBuffer, dspMood, outputBuffer, wavInput,
                   wavResult>>
    /\ UNCHANGED componentVars
    /\ UNCHANGED <<pageVars, recorderVars, suspended>>

InitReads ==
    /\ InitComponent
    /\ InitPage
    /\ InitRecorder
    /\ InitInvocations
    /\ audioBlob = Null
    /\ selectedMood = NoMood
    /\ \E rate \in ReadRates, length \in 1..MaxLength,
          numberOfChannels \in ChannelCounts :
           originalBuffer = createBuffer(numberOfChannels, length, rate)
    /\ dspMood \in TransformMoods
    /\ outputBuffer = NoBuffer
    /\ wavInput = NoBuffer
    /\ wavResult = NoResult
    /\ dspPc = "decoded"
    /\ reads = NoReads

NextReads == \E codeCopy \in CopiesOf(variant) : ReadChannel(codeCopy)

SpecReads == InitReads /\ [][NextReads]_vars

----------------------------------------------------------------------------
(* The encoder on its own: encodeWAV applied to a rendered buffer.  The two
   files hold the same encodeWAV, so one version stands for both. *)

\* The call of encodeWAV (line 140).
EncodeBuffer ==
    /\ dspPc = "rendered"
    /\ wavResult' = encodeWAV(wavInput)
    /\ dspPc' = "encoded"
    /\ UNCHANGED <<originalBuffer, dspMood, outputBuffer, wavInput, reads>>
    /\ UNCHANGED componentVars
    /\ UNCHANGED <<pageVars, recorderVars, suspended>>

InitEncode ==
    /\ InitComponent
    /\ InitPage
    /\ InitRecorder
    /\ InitInvocations
    /\ variant = "A"
    /\ audioBlob = Null
    /\ selectedMood = NoMood
    /\ originalBuffer = NoBuffer
    /\ dspMood = NoMood
    /\ outputBuffer = NoBuffer
    /\ \E shape \in EncoderShapes, rate \in EncoderRates :
          \E chans \in ChannelData(shape) :
             wavInput = AudioBuffer(rate, chans)
    /\ wavResult = NoResult
    /\ dspPc = "rendered"
    /\ reads = NoReads

NextEncode == EncodeBuffer

SpecEncode == InitEncode /\ [][NextEncode]_vars

\* encodeWAV handed an object that is no proper AudioBuffer: no channels,
\* or a sample rate that is not positive.
InvalidRates == {0, -8000}
NoChannels ==
    {[sampleRate |-> rate, numberOfChannels |-> 0, length |-> n,
      channels |-> <<>>] : rate \in EncoderRates, n \in 0..MaxFrames}

InitEncodeInvalid ==
    /\ InitComponent
    /\ InitPage
    /\ InitRecorder
    /\ InitInvocations
    /\ variant = "A"
    /\ audioBlob = Null
    /\ selectedMood = NoMood
    /\ originalBuffer = NoBuffer
    /\ dspMood = NoMood
    /\ outputBuffer = NoBuffer
    /\ \/ \E shape \in EncoderShapes, rate \in InvalidRates :
             \E chans \in ChannelData(shape) :
                wavInput = AudioBuffer(rate, chans)
       \/ wavInput \in NoChannels
    /\ wavResult = NoResult
    /\ dspPc = "rendered"
    /\ reads = NoReads

SpecEncodeInvalid == InitEncodeInvalid /\ [][NextEncode]_vars

----------------------------------------------------------------------------
(* Properties *)

\* C1: the catalog never holds more than 10 songs, in any state, also
\* right after the append that would have made it 11.
C1_CatalogAtMostTen == Len(generatedSongs) <= CatalogCap

\* An 11th song has been appended to a full catalog.
C1_Witness ==
    Len(appended) > CatalogCap /\ Len(generatedSongs) = CatalogCap

\* C2: after k appends to an empty catalog, the catalog is the min(k, 10)
\* songs appended last, newest first; after 11 appends the 11th song is at
\* the front and the 1st is gone.
C2_NewestFirstDropsOldest ==
    /\ Len(generatedSongs) = Min(Len(appended), CatalogCap)
    /\ \A i \in 1..Len(generatedSongs) :
           generatedSongs[i] = appended[Len(appended) - i + 1]
    /\ Len(appended) = CatalogCap + 1 =>
           /\ Len(generatedSongs) = CatalogCap
           /\ generatedSongs[1] = appended[CatalogCap + 1]
           /\ \A i \in 1..Len(generatedSongs) :
                  generatedSongs[i].id # appended[1].id

\* Eleven songs were appended and the 11th is at the front.
C2_Witness ==
    /\ Len(appended) = CatalogCap + 1
    /\ generatedSongs[1] = appended[CatalogCap + 1]

\* C3: while the audio source or the mood is missing, invoking the handler
\* reports the missing input and changes none of isGenerating, the stage,
\* the generated URL, the generated blob and the catalog.
C3_MissingInputNoTransition ==
    [][(audioBlob = Null \/ selectedMood = NoMood) =>
          /\ UNCHANGED <<isGenerating, processingStage, generatedMusicUrl,
                         generatedBlob, generatedSongs, pc>>
          /\ (audioBlob' = audioBlob /\ selectedMood' = selectedMood)
                 => rejected']_vars

\* The handler was invoked with an input missing and refused.
C3_Witness ==
    /\ rejected
    /\ (audioBlob = Null \/ selectedMood = NoMood)
    /\ runResult = "none"

StageNo(stage) ==
    CASE stage = "waiting" -> 0
      [] stage = "analyzing" -> 1
      [] stage = "extracting" -> 2
      [] stage = "generating" -> 3
      [] stage = "complete" -> 4

\* C4: within a run the stage only moves to the next stage of waiting,
\* analyzing, extracting, generating, complete; a run starts at analyzing
\* from a state with no run in progress; the transform and the encoding are
\* in progress, and the catalog is appended to, only in stage generating.
C4_StagesInOrder ==
    /\ [][/\ runCount' = runCount /\ processingStage' # processingStage
             => StageNo(processingStage') = StageNo(processingStage) + 1
          /\ runCount' # runCount
             => /\ processingStage \in {"waiting", "complete"}
                /\ processingStage' = "analyzing"
          /\ generatedSongs' # generatedSongs
             => processingStage = "generating"]_vars
    /\ [](pc = "render" => processingStage = "generating")

\* A run went through every stage and stored its song.
C4_Witness ==
    /\ runResult = "succeeded"
    /\ processingStage = "complete"
    /\ Len(generatedSongs) = 1

\* C5: a run in which something threw does not end in stage complete.
C5_FailedRunNotComplete ==
    runResult = "failed" => processingStage # "complete"

CompleteSong(song) ==
    /\ song.id \in 1..songCount
    /\ song.blob \in 1..songCount
    /\ song.url \in CreatedUrls
    /\ urlBlob[song.url] = song.blob
    /\ song.moodType \in Moods
    /\ song.duration = VoiceDuration

\* C6: the catalog changes only in the step that ends a run in which
\* nothing threw, and that step puts exactly one new song in front; a run
\* in which something threw leaves the catalog, the generated blob and the
\* generated URL as they were when it started; every catalog entry is a
\* completely built song.
C6_OnlySuccessfulRunsStore ==
    /\ [][/\ generatedSongs' # generatedSongs =>
                /\ pc = "render"
                /\ raised' = "none"
                /\ runResult' = "succeeded"
          /\ (runResult = "running" /\ runResult' = "succeeded") =>
                /\ Len(generatedSongs') >= 1
                /\ generatedSongs' =
                       Slice0(<<generatedSongs'[1]>> \o generatedSongs,
                              CatalogCap)
                /\ generatedSongs'[1].id = songCount'
                /\ \A i \in 1..Len(generatedSongs) :
                       generatedSongs[i].id # songCount']_vars
    /\ [](runResult \in {"running", "failed"} =>
             /\ generatedSongs = atStart.songs
             /\ generatedBlob = atStart.blob
             /\ generatedMusicUrl = atStart.url)
    /\ [](raised # "none" => runResult = "failed")
    /\ [](\A i \in 1..Len(generatedSongs) : CompleteSong(generatedSongs[i]))

\* A second run failed in encoding.
C6_Witness ==
    /\ runResult = "failed"
    /\ raised = "encode"
    /\ runCount = 2

\* C7: every object URL that has not been revoked is a URL of a song that
\* is in the catalog or is the presented track.
C7_NoOrphanHandle ==
    \A u \in LiveUrls :
       \/ u = generatedMusicUrl
       \/ urlBlob[u] = generatedBlob
       \/ \E i \in 1..Len(generatedSongs) :
             generatedSongs[i].blob = urlBlob[u]

\* C8: when saveSongOption threw, the run's generated blob and a URL of it
\* are presented and the SaveSongException is reported.
C8_SaveFailureStillDelivers ==
    raised = "save" =>
       /\ generatedBlob = songCount
       /\ generatedMusicUrl # Null
       /\ errorToasts = <<"SaveSongException">>

\* C9: once the caller has withdrawn or replaced the inputs of a run in
\* progress, that run neither stores a song nor replaces the presented
\* track.
C9_AbandonedRunStoresNothing ==
    [][(abandoned /\ pc # "idle") =>
          UNCHANGED <<generatedSongs, generatedMusicUrl,
                      generatedBlob>>]_vars

TypedErrors ==
    {"MoodNotFoundException", "SongGeneratorException", "SaveSongException",
     "Generation failed"}

\* C10: whatever threw in a run, the run has ended (the handler returned,
\* isGenerating is false) with exactly one error toast, of a typed error:
\* SongGeneratorException for a failure inside processOutput,
\* SaveSongException for a failed save; a run in which nothing threw shows
\* no error toast.
C10_EveryFailureReportedOnce ==
    /\ raised # "none" =>
          /\ runResult = "failed"
          /\ pc = "idle" /\ ~isGenerating
          /\ Len(errorToasts) = 1
          /\ errorToasts[1] \in TypedErrors
          /\ raised \in Faults => errorToasts[1] = "SongGeneratorException"
          /\ raised = "save" => errorToasts[1] = "SaveSongException"
          /\ raised = "mood" => errorToasts[1] = "MoodNotFoundException"
    /\ runResult = "failed" => raised # "none"
    /\ raised = "none" => errorToasts = <<>>

\* A save failure was reported as a SaveSongException.
C10_Witness ==
    /\ raised = "save"
    /\ errorToasts = <<"SaveSongException">>
    /\ runResult = "failed"

\* C11: once a failed run has finished, the Generate Music button is enabled
\* whenever a recording and a mood are present, and the run started after a
\* failed one begins at the first stage (analyzing) like any other run.
C11_RetryAfterFailure ==
    /\ []((runResult = "failed" /\ audioBlob # Null /\ selectedMood # NoMood)
            => GenerateButtonEnabled)
    /\ [][(runResult = "failed" /\ runResult' = "running") =>
             /\ isGenerating'
             /\ processingStage' = "analyzing"
             /\ pc' = "timer1"]_vars

\* A run started after a failed one has reached the stage generating.
C11_Witness ==
    /\ runCount = 2
    /\ pc = "render"
    /\ processingStage = "generating"

\* C12: after a generation has completed successfully, with the recording
\* and the mood still present, the Generate Music button is enabled again,
\* so that a further song can be added to the catalog.
C12_FurtherGenerationAfterSuccess ==
    (runResult = "succeeded" /\ audioBlob # Null /\ selectedMood # NoMood)
        => GenerateButtonEnabled

\* C13: the transformed buffer has the sample rate, the channel count and
\* the per-channel length of the input buffer, for every mood and for a mood
\* outside the five.
C13_TransformKeepsShape ==
    dspPc = "transformed" =>
       /\ outputBuffer.sampleRate = originalBuffer.sampleRate
       /\ outputBuffer.numberOfChannels = originalBuffer.numberOfChannels
       /\ Len(outputBuffer.channels) = originalBuffer.numberOfChannels
       /\ outputBuffer.length = originalBuffer.length
       /\ \A c \in 1..Len(outputBuffer.channels) :
              Len(outputBuffer.channels[c]) = originalBuffer.length

\* A stereo buffer of two samples was transformed under a mood outside the
\* five.
C13_Witness ==
    /\ dspPc = "transformed"
    /\ dspMood = "other"
    /\ originalBuffer.numberOfChannels = 2
    /\ originalBuffer.length = 2
    /\ Len(outputBuffer.channels[2]) = 2

\* C14: with every input sample in [-1, 1], every output sample of the
\* transform lies in [-1, 1] for the moods calm, energetic and angry.
C14_OutputWithinFullScale ==
    (dspPc = "transformed" /\ dspMood \in {"calm", "energetic", "angry"}) =>
       \A c \in 1..Len(outputBuffer.channels) :
          \A k \in 1..Len(outputBuffer.channels[c]) :
             /\ outputBuffer.channels[c][k] <= Scale
             /\ outputBuffer.channels[c][k] >= -Scale

\* C15: under a mood outside the five, every output sample equals the input
\* sample of the same channel and index.
C15_DefaultIsIdentity ==
    (dspPc = "transformed" /\ dspMood \notin Moods) =>
       /\ Len(outputBuffer.channels) = Len(originalBuffer.channels)
       /\ \A c \in 1..Len(originalBuffer.channels) :
             /\ Len(outputBuffer.channels[c]) = originalBuffer.length
             /\ \A k \in 1..originalBuffer.length :
                    outputBuffer.channels[c][k] =
                        originalBuffer.channels[c][k]

\* A mono buffer of samples that differ from index to index went through
\* the default branch.
C15_Witness ==
    /\ dspPc = "transformed"
    /\ dspMood = "other"
    /\ originalBuffer.length = MaxSamples
    /\ originalBuffer.channels[1][1] = -Scale
    /\ originalBuffer.channels[1][2] = Scale \div 2
    /\ originalBuffer.channels[1][3] = 0
    /\ outputBuffer.channels[1][2] = Scale \div 2

\* Reading the encoded bytes back: little-endian unsigned 16 and 32 bit
\* fields, a signed 16 bit field, and four bytes as character codes.
ReadUint16(bytes, offset) == bytes[offset + 1] + 256 * bytes[offset + 2]
ReadUint32(bytes, offset) ==
    ReadUint16(bytes, offset) + 65536 * ReadUint16(bytes, offset + 2)
ReadInt16(bytes, offset) ==
    IF ReadUint16(bytes, offset) >= 32768
    THEN ReadUint16(bytes, offset) - 65536
    ELSE ReadUint16(bytes, offset)
ReadTag(bytes, offset) == SubSeq(bytes, offset + 1, offset + 4)

\* C16: the output is 44 + N * channelCount * 2 bytes long and starts with
\* the canonical header: RIFF, 36 + dataLength, WAVE, the fmt chunk with
\* chunkSize 16, audioFormat 1, numChannels, sampleRate, byteRate =
\* sampleRate * channelCount * 2, blockAlign = channelCount * 2 and
\* bitsPerSample 16, and the data chunk size N * channelCount * 2, every
\* number little-endian.
C16_HeaderAgreesWithBuffer ==
    dspPc = "encoded" =>
       LET bytes == wavResult.bytes
           channelCount == wavInput.numberOfChannels
           dataLength == wavInput.length * channelCount * 2
       IN /\ Len(bytes) = 44 + dataLength
          /\ ReadTag(bytes, 0) = RIFF
          /\ ReadUint32(bytes, 4) = 36 + dataLength
          /\ ReadTag(bytes, 8) = WAVE
          /\ ReadTag(bytes, 12) = FMT
          /\ ReadUint32(bytes, 16) = 16
          /\ ReadUint16(bytes, 20) = 1
          /\ ReadUint16(bytes, 22) = channelCount
          /\ ReadUint32(bytes, 24) = wavInput.sampleRate
          /\ ReadUint32(bytes, 28) = wavInput.sampleRate * channelCount * 2
          /\ ReadUint16(bytes, 32) = channelCount * 2
          /\ ReadUint16(bytes, 34) = 16
          /\ ReadTag(bytes, 36) = DATA
          /\ ReadUint32(bytes, 40) = dataLength

\* A stereo buffer of two frames at 44100 Hz was encoded: 52 bytes, the
\* sample rate stored as 68, 172, 0, 0.
C16_Witness ==
    /\ dspPc = "encoded"
    /\ wavInput.numberOfChannels = 2
    /\ wavInput.length = 2
    /\ wavInput.sampleRate = 44100
    /\ Len(wavResult.bytes) = 52
    /\ SubSeq(wavResult.bytes, 25, 28) = <<68, 172, 0, 0>>

\* The 16 bit value the encoder stores for a sample: the product of
\* lines 179-180 without its fraction.
Stored(sample) == Trunc(int16(sample), Scale)

\* C17: the value of channel c at index i is found at byte offset
\* 44 + 2 * (i * channelCount + c); the setInt16 calls write every even
\* offset of the payload exactly once; the offset after the last sample is
\* the length of the output.
C17_PayloadInterleaved ==
    dspPc = "encoded" =>
       LET channelCount == wavInput.numberOfChannels
           count == wavInput.length * channelCount
       IN /\ \A i \in 0..(wavInput.length - 1) :
                \A c \in 0..(channelCount - 1) :
                   ReadInt16(wavResult.bytes, 44 + 2 * (i * channelCount + c))
                       = Stored(At(wavInput.channels[c + 1], i))
          /\ Len(wavResult.writes) = count
          /\ \A m \in 0..(count - 1) :
                \E k \in 1..count : wavResult.writes[k] = 44 + 2 * m
          /\ wavResult.offset = Len(wavResult.bytes)

\* A stereo buffer of two frames whose four samples are stored as four
\* different values was encoded.
C17_Witness ==
    /\ dspPc = "encoded"
    /\ wavInput.channels = <<<<(7 * Scale) \div 10, -(3 * Scale) \div 10>>,
                            <<-Scale, Scale>>>>
    /\ SubSeq(wavResult.bytes, 45, 52) = <<152, 89, 0, 128, 154, 217, 255, 127>>
    /\ wavResult.writes = <<44, 46, 48, 50>>

\* The integer nearest to numerator / Scale (halves away from zero).
RoundNearest(numerator) ==
    IF numerator >= 0
    THEN (2 * numerator + Scale) \div (2 * Scale)
    ELSE -((2 * (-numerator) + Scale) \div (2 * Scale))

\* C18: every stored value is the sample clamped to [-1, 1], times 32768
\* below zero and 32767 otherwise, rounded to the nearest integer, and lies
\* within [-32768, 32767].
C18_ClampScaleRound ==
    dspPc = "encoded" =>
       \A c \in 1..wavInput.numberOfChannels :
          \A i \in 0..(wavInput.length - 1) :
             LET sample == At(wavInput.channels[c], i)
                 clamped == IF sample > Scale THEN Scale
                            ELSE IF sample < -Scale THEN -Scale ELSE sample
                 product == IF clamped < 0 THEN clamped * 32768
                            ELSE clamped * 32767
                 stored == ReadInt16(wavResult.bytes,
                               44 + 2 * (i * wavInput.numberOfChannels
                                         + (c - 1)))
             IN /\ stored = RoundNearest(product)
                /\ stored >= -32768
                /\ stored <= 32767

\* C19: reading the output back gives the buffer's sampleRate and
\* channelCount, bitsPerSample 16 and audioFormat 1, and, for every sample
\* within [-1, 1], a value no further than 1/32767 from it.  A stored value
\* v is read back by the inverse of the encoder's scaling: v / 32768 below
\* zero, v / 32767 otherwise.
C19_RoundTrip ==
    dspPc = "encoded" =>
       LET bytes == wavResult.bytes
           channelCount == ReadUint16(bytes, 22)
       IN /\ ReadUint32(bytes, 24) = wavInput.sampleRate
          /\ channelCount = wavInput.numberOfChannels
          /\ ReadUint16(bytes, 34) = 16
          /\ ReadUint16(bytes, 20) = 1
          /\ ReadUint32(bytes, 40) = wavInput.length * channelCount * 2
          /\ \A c \in 1..channelCount :
                \A i \in 0..(wavInput.length - 1) :
                   LET sample == At(wavInput.channels[c], i)
                       v == ReadInt16(bytes,
                                44 + 2 * (i * channelCount + (c - 1)))
                       divisor == IF v < 0 THEN 32768 ELSE 32767
                   IN (sample >= -Scale /\ sample <= Scale) =>
                         Abs(sample * divisor - v * Scale)
                             <= (Scale * divisor) \div 32767

\* A buffer holding 0.7 and -0.3, which the 16 bit values do not represent
\* exactly, was encoded.
C19_Witness ==
    /\ dspPc = "encoded"
    /\ wavInput.numberOfChannels = 1
    /\ wavInput.channels[1] = <<(7 * Scale) \div 10, -(3 * Scale) \div 10>>
    /\ ReadInt16(wavResult.bytes, 44) = 22936
    /\ ReadInt16(wavResult.bytes, 46) = -9830

C21_AngryKeepsSilence ==
    (/\ dspPc = "transformed"
     /\ dspMood = "angry"
     /\ \A c \in 1..originalBuffer.numberOfChannels :
           \A k \in 1..originalBuffer.length :
              originalBuffer.channels[c][k] = 0) =>
       /\ outputBuffer.sampleRate = originalBuffer.sampleRate
       /\ outputBuffer.length = originalBuffer.length
       /\ outputBuffer.numberOfChannels = originalBuffer.numberOfChannels
       /\ Len(outputBuffer.channels) = originalBuffer.numberOfChannels
       /\ \A c \in 1..Len(outputBuffer.channels) :
             /\ Len(outputBuffer.channels[c]) = originalBuffer.length
             /\ \A k \in 1..Len(outputBuffer.channels[c]) :
                    outputBuffer.channels[c][k] = 0

\* A silent mono buffer of MaxSamples samples at 44100 Hz, where part_000
\* applies both of its gains, went through the angry branch.
C21_Witness ==
    /\ dspPc = "transformed"
    /\ dspMood = "angry"
    /\ variant = "B"
    /\ originalBuffer.sampleRate = 44100
    /\ originalBuffer.channels = <<[k \in 1..MaxSamples |-> 0]>>
    /\ outputBuffer.channels = <<[k \in 1..MaxSamples |-> 0]>>

\* C22: the mood suggestion is advisory.  A step that changes the suggested
\* mood leaves the selected mood, the recording, the active tab and the
\* catalog as they were; a run works on the mood that was selected when it
\* started, and the song it stores carries that mood.
C22_SuggestionIsAdvisory ==
    /\ [][aiSuggestedMood' # aiSuggestedMood =>
             UNCHANGED <<selectedMood, audioBlob, activeTab, generatedSongs,
                         closure>>]_vars
    /\ [][pc = "idle" /\ pc' # "idle" =>
             closure'.selectedMood = selectedMood]_vars
    /\ [][Len(appended') > Len(appended) =>
             appended'[Len(appended')].moodType = closure.selectedMood]_vars

\* C22's case: a song made for the selected mood while another mood is
\* suggested.
C22_Witness ==
    /\ runResult = "succeeded"
    /\ Len(generatedSongs) = 1
    /\ aiSuggestedMood # NoMood
    /\ aiSuggestedMood # selectedMood
    /\ generatedSongs[1].moodType = selectedMood
    /\ generatedSongs[1].moodType # aiSuggestedMood

\* The songs stored last are in the catalog, each once.
C23_CatalogKeepsStored ==
    /\ Len(generatedSongs) <= CatalogCap
    /\ \A k \in 1..Len(appended) :
           (k > Len(appended) - CatalogCap) =>
              Cardinality({i \in 1..Len(generatedSongs) :
                              generatedSongs[i] = appended[k]}) = 1

\* C23: appends of interleaved runs are not lost.  Whatever the order in
\* which two invocations in flight store their songs, each store puts the
\* new song in front of the catalog as it is at that moment, the last
\* min(k, 10) of the k songs stored are all in the catalog, each once, and
\* the catalog never holds more than 10.
C23_InterleavedAppendsKept ==
    /\ C23_CatalogKeepsStored
    /\ [][/\ C23_CatalogKeepsStored'
          /\ Len(appended') > Len(appended) =>
                generatedSongs' =
                    Slice0(<<appended'[Len(appended')]>> \o generatedSongs,
                           CatalogCap)]_vars

\* Two invocations were in flight together, the one that started first
\* stored its song last, and both songs are in a full catalog.
C23_Witness ==
    /\ pc = "idle" /\ suspended.pc = "idle"
    /\ runCount = 2
    /\ ~suspended.older
    /\ runResult = "succeeded"
    /\ Len(appended) = Len(atStart.songs) + 2
    /\ Len(atStart.songs) >= CatalogCap - 1
    /\ Len(generatedSongs) = CatalogCap
    /\ generatedSongs[1] = appended[Len(appended)]
    /\ generatedSongs[2] = appended[Len(appended) - 1]

\* C26: at most one run is in progress.  While an invocation of the handler
\* has not finished, isGenerating is true and the Generate Music button is
\* disabled; no second invocation is ever in flight beside it, and a song
\* is stored only by the one invocation in flight.
C26_AtMostOneRun ==
    /\ [](~(pc # "idle" /\ suspended.pc # "idle"))
    /\ []((pc # "idle" \/ suspended.pc # "idle") =>
             isGenerating /\ ~GenerateButtonEnabled)
    /\ [][(pc # "idle" \/ suspended.pc # "idle") => runCount' = runCount]_vars
    /\ [][Len(appended') > Len(appended) =>
             pc = "render" /\ suspended.pc = "idle"]_vars

\* An invocation is waiting, the inputs are present and no track hides the
\* button: only isGenerating keeps a second run from starting.
C26_Witness ==
    /\ pc = "idle"
    /\ suspended.pc = "render"
    /\ audioBlob # Null /\ selectedMood # NoMood
    /\ generatedMusicUrl = Null
    /\ isGenerating

\* C24: no playable handle is released while in use.  In every reachable
\* state the URL of each catalog entry and the presented URL, if any, have
\* not been passed to URL.revokeObjectURL.
C24_NoHandleReleasedInUse ==
    /\ generatedMusicUrl # Null => generatedMusicUrl \notin revoked
    /\ \A i \in 1..Len(generatedSongs) : generatedSongs[i].url \notin revoked

\* C25: every sample read of the transform is within the source channel.
\* Each index the loops read from inputData, a tempo index
\* floor(i * rate) mod N or an echo index (taken only when i exceeds the
\* delay, or clamped at 0), lies in 0..N-1.
C25_ReadsWithinChannel ==
    dspPc = "read" =>
       \A index \in reads.indices :
          0 <= index /\ index < originalBuffer.length

\* The happy loop of MusicGenerator.tsx ran over a channel long enough for
\* floor(i * 1.05) to pass the end: the read wrapped around to index 0.
C25_Witness ==
    /\ dspPc = "read"
    /\ dspMood = "happy"
    /\ reads.copy = "A"
    /\ FloorTimes(originalBuffer.length - 1, 105) = originalBuffer.length
    /\ 0 \in reads.indices

\* No draw of Math.random: the dither of the moods other than happy.
NoDither(buffer) ==
    [c \in 1..buffer.numberOfChannels |-> [k \in 1..buffer.length |-> 0]]

\* C28: the transform never writes its input.  The step that runs the
\* channel loops leaves every sample and the shape of the input buffer as
\* they were; what the loops wrote is in the output buffer.
C28_InputNotWritten ==
    [][(dspPc = "decoded" /\ dspPc' = "transformed") =>
          /\ originalBuffer' = originalBuffer
          /\ dspMood # "happy" =>
                outputBuffer' = transform(variant, originalBuffer, dspMood,
                                          NoDither(originalBuffer))]_vars

\* The sad loop wrote samples that differ from the input's, and the input
\* still holds its own.
C28_Witness ==
    /\ dspPc = "transformed"
    /\ dspMood = "sad"
    /\ originalBuffer.channels = <<<<-Scale, Scale \div 2>>>>
    /\ outputBuffer.channels # originalBuffer.channels

\* The buffer with channel c replaced by data.
WithChannel(buffer, c, data) ==
    [buffer EXCEPT !.channels = [@ EXCEPT ![c] = data]]
\* A channel on its own, and the buffer with its channels in reverse order.
OnlyChannel(buffer, c) ==
    [buffer EXCEPT !.numberOfChannels = 1, !.channels = <<@[c]>>]
Reversed(buffer) ==
    [buffer EXCEPT !.channels =
        [c \in 1..Len(@) |-> @[Len(@) + 1 - c]]]

\* C29: channels are transformed independently.  For every mood other than
\* happy, output channel c is the same whatever the other channel holds,
\* the same as for channel c on its own, and the same when the channels
\* are processed in the other order.
C29_ChannelsIndependent ==
    (dspPc = "transformed" /\ dspMood # "happy") =>
       \A c \in 1..originalBuffer.numberOfChannels :
          /\ LET alone == OnlyChannel(originalBuffer, c)
             IN transform(variant, alone, dspMood,
                          NoDither(alone)).channels[1]
                    = outputBuffer.channels[c]
          /\ LET reversed == Reversed(originalBuffer)
                 n == originalBuffer.numberOfChannels
             IN transform(variant, reversed, dspMood,
                          NoDither(reversed)).channels[n + 1 - c]
                    = outputBuffer.channels[c]
          /\ \A d \in 1..originalBuffer.numberOfChannels :
                \A data \in [1..originalBuffer.length -> InputSamples] :
                   d # c =>
                      LET other == WithChannel(originalBuffer, d, data)
                      IN transform(variant, other, dspMood,
                                   NoDither(other)).channels[c]
                             = outputBuffer.channels[c]

\* A stereo buffer whose channels differ went through part_000's calm
\* filter, and the two output channels differ.
C29_Witness ==
    /\ dspPc = "transformed"
    /\ dspMood = "calm"
    /\ variant = "B"
    /\ originalBuffer.numberOfChannels = 2
    /\ originalBuffer.channels[1] # originalBuffer.channels[2]
    /\ outputBuffer.channels[1] # outputBuffer.channels[2]

\* C27: every started run terminates.  When each awaited step eventually
\* settles, a run that has set isGenerating true eventually sets it false,
\* whether it succeeds or fails on any path.
C27_RunTerminates == isGenerating ~> ~isGenerating

\* The first run failed while decoding and is over.
C27_Witness ==
    /\ runCount = 1
    /\ runResult = "failed"
    /\ raised = "decode"
    /\ pc = "idle"
    /\ ~isGenerating

\* Every blob the page was handed comes from a recorder that was stopped at
\* recordingTime >= minRecordingTime.
C30_HandedBlobLongEnough ==
    audioBlob # Null => ~mediaRecorders[audioBlob].short

\* C30: a stop request while recordingTime < minRecordingTime changes
\* nothing (isRecording, isPaused, the media recorder, the timer and the
\* time keep their state and no blob is produced), a recording is stopped
\* by the Stop button only at recordingTime >= minRecordingTime, and so
\* every blob handed to onRecordingComplete comes from a recording stopped
\* at recordingTime >= minRecordingTime.
C30_StopBelowMinimumIgnored ==
    /\ C30_HandedBlobLongEnough
    /\ [][/\ C30_HandedBlobLongEnough'
          /\ (recorderToast' = "Recording is too short"
                 /\ recorderToast # recorderToast') =>
                /\ recordingTime < MinRecordingTime
                /\ UNCHANGED <<isRecording, isPaused, recordingTime,
                               recordingBlob, audioUrl, mediaRecorderRef,
                               timerRef, mediaRecorders, pendingStarts>>
          /\ (isRecording /\ ~isRecording') =>
                recordingTime >= MinRecordingTime]_vars

\* A stop request at 29 seconds was refused: the recording goes on and
\* there is no blob.
C30_Witness ==
    /\ recorderToast = "Recording is too short"
    /\ recordingTime = MinRecordingTime - 1
    /\ isRecording
    /\ timerRef
    /\ recordingBlob = Null
    /\ mediaRecorders[mediaRecorderRef].state = "recording"
====
